---- MODULE Spec2Model ----
(***************************************************************************)
(* Model of the GreenML carbon calculator: the mock backend service        *)
(* (mockBackend.predict, calculateEstimatedPower, getCarbonData,           *)
(* refreshCarbonData), the CarbonCalculator component that drives it and   *)
(* the App's refreshTrigger.                                               *)
(*                                                                         *)
(* JavaScript numbers are modelled as exact rationals n/d together with    *)
(* the special values NaN and +/-Infinity; undefined is a value of its     *)
(* own.  Floating-point rounding and the sign of zero are not modelled.    *)
(***************************************************************************)
EXTENDS Integers, Sequences, FiniteSets, TLC

\* ------------------------------------------------------------------------
\* Bounds of the exploration
\* ------------------------------------------------------------------------
\* user edits of the calculator form in one session
MaxEdits == 1
\* calculator submissions in one session
MaxSubmits == 1
\* distinct strings the random job-id generator can return
MaxJobIds == 2
\* largest GPU count a form edit selects (the slider allows 1..8)
MaxGpuCount == 2
\* largest duration a form edit types, in half hours (the input steps by 0.5)
MaxHalfHours == 2
\* largest dataset size a form edit types, in GB
MaxDatasetGb == 2
\* largest batch size a form edit selects, in steps of 8
MaxBatchSteps == 1
\* largest number a direct caller of the service passes in a numeric field
MaxApiNumber == 2

\* ------------------------------------------------------------------------
\* JavaScript values
\* ------------------------------------------------------------------------
Abs(x) == IF x < 0 THEN -x ELSE x

Sign(x) == IF x < 0 THEN -1 ELSE IF x > 0 THEN 1 ELSE 0

RECURSIVE Gcd(_, _)
Gcd(a, b) == IF b = 0 THEN a ELSE Gcd(b, a % b)

\* the number n/d (d # 0), in lowest terms with a positive denominator
Rat(n, d) ==
  LET g == Gcd(Abs(n), Abs(d))
      s == IF d < 0 THEN -1 ELSE 1
  IN  [t |-> "num", n |-> (s * n) \div g, d |-> (s * d) \div g]

Num(n) == Rat(n, 1)

NaN == [t |-> "NaN"]

\* +Infinity (s = 1) or -Infinity (s = -1)
Infinity(s) == [t |-> "Infinity", s |-> s]

Undefined == [t |-> "undefined"]

Null == [t |-> "null"]

IsNum(v) == v.t = "num"

IsInf(v) == v.t = "Infinity"

\* ToNumber: undefined converts to NaN, numbers to themselves
ToNumber(v) == IF v.t \in {"num", "Infinity"} THEN v ELSE NaN

\* sign of a number or infinity
JsSign(v) == IF IsInf(v) THEN v.s ELSE Sign(v.n)

\* a + b on numbers
JsAdd(a, b) ==
  LET x == ToNumber(a)
      y == ToNumber(b)
  IN  IF x = NaN \/ y = NaN THEN NaN
      ELSE IF IsInf(x) /\ IsInf(y) THEN (IF x.s = y.s THEN x ELSE NaN)
      ELSE IF IsInf(x) THEN x
      ELSE IF IsInf(y) THEN y
      ELSE Rat(x.n * y.d + y.n * x.d, x.d * y.d)

\* a * b
JsMul(a, b) ==
  LET x == ToNumber(a)
      y == ToNumber(b)
  IN  IF x = NaN \/ y = NaN THEN NaN
      ELSE IF IsInf(x) \/ IsInf(y)
           THEN (IF JsSign(x) * JsSign(y) = 0 THEN NaN
                 ELSE Infinity(JsSign(x) * JsSign(y)))
      ELSE Rat(x.n * y.n, x.d * y.d)

\* a - b
JsSub(a, b) == JsAdd(a, JsMul(Num(-1), b))

\* a / b : 0/0 and Infinity/Infinity are NaN, x/0 is an infinity
JsDiv(a, b) ==
  LET x == ToNumber(a)
      y == ToNumber(b)
  IN  IF x = NaN \/ y = NaN THEN NaN
      ELSE IF IsInf(x) /\ IsInf(y) THEN NaN
      ELSE IF IsInf(x) THEN Infinity(x.s * (IF JsSign(y) < 0 THEN -1 ELSE 1))
      ELSE IF IsInf(y) THEN Num(0)
      ELSE IF y.n = 0 THEN (IF x.n = 0 THEN NaN ELSE Infinity(Sign(x.n)))
      ELSE Rat(x.n * y.d, x.d * y.n)

\* a < b and a <= b on numbers; any comparison with NaN is false
JsLt(a, b) ==
  LET v == JsSub(a, b)
  IN  v # NaN /\ JsSign(v) < 0

JsLe(a, b) ==
  LET x == ToNumber(a)
      y == ToNumber(b)
  IN  x # NaN /\ y # NaN /\ (x = y \/ JsLt(x, y))

\* Math.floor(a)
JsFloor(a) ==
  LET x == ToNumber(a)
  IN  IF IsNum(x) THEN Num(x.n \div x.d) ELSE x

\* Math.max(a, b): NaN when an argument is NaN
JsMax(a, b) ==
  LET x == ToNumber(a)
      y == ToNumber(b)
  IN  IF x = NaN \/ y = NaN THEN NaN
      ELSE IF JsLt(x, y) THEN y ELSE x

\* obj[key] : a missing key reads as undefined
Lookup(obj, key) == IF key \in DOMAIN obj THEN obj[key] ELSE Undefined

\* v || dflt : undefined, NaN and 0 are falsy
OrDefault(v, dflt) ==
  IF v.t \in {"undefined", "NaN", "null"} \/ (IsNum(v) /\ v.n = 0) THEN dflt ELSE v

\* ------------------------------------------------------------------------
\* mockBackend
\* ------------------------------------------------------------------------
\* the value getCarbonData resolves with
CarbonTable ==
  [r \in {"us-east-1", "us-west-2", "eu-west-1", "ap-southeast-1", "ca-central-1"} |->
     CASE r = "us-east-1" ->
            [region |-> "US East (N. Virginia)", intensity |-> Rat(38, 100), source |-> "EPA 2024"]
       [] r = "us-west-2" ->
            [region |-> "US West (Oregon)", intensity |-> Rat(28, 100), source |-> "EPA 2024"]
       [] r = "eu-west-1" ->
            [region |-> "EU West (Ireland)", intensity |-> Rat(32, 100), source |-> "EEA 2024"]
       [] r = "ap-southeast-1" ->
            [region |-> "Asia Pacific (Singapore)", intensity |-> Rat(48, 100), source |-> "Gov SG 2024"]
       [] r = "ca-central-1" ->
            [region |-> "Canada (Central)", intensity |-> Rat(12, 100), source |-> "Env Canada 2024"]]

\* the value refreshCarbonData resolves with
RefreshedCarbonTable ==
  [r \in {"us-east-1", "us-west-2", "eu-west-1", "ap-southeast-1", "ca-central-1"} |->
     CASE r = "us-east-1" ->
            [region |-> "US East (N. Virginia)", intensity |-> Rat(37, 100), source |-> "EPA 2024"]
       [] r = "us-west-2" ->
            [region |-> "US West (Oregon)", intensity |-> Rat(27, 100), source |-> "EPA 2024"]
       [] r = "eu-west-1" ->
            [region |-> "EU West (Ireland)", intensity |-> Rat(31, 100), source |-> "EEA 2024"]
       [] r = "ap-southeast-1" ->
            [region |-> "Asia Pacific (Singapore)", intensity |-> Rat(47, 100), source |-> "Gov SG 2024"]
       [] r = "ca-central-1" ->
            [region |-> "Canada (Central)", intensity |-> Rat(11, 100), source |-> "Env Canada 2024"]]

\* predict: baseCarbon = duration_hours * gpu_count * 0.3 + dataset_size_gb * 0.01
BaseCarbon(fd) ==
  JsAdd(JsMul(JsMul(fd.duration_hours, fd.gpu_count), Rat(3, 10)),
        JsMul(fd.dataset_size_gb, Rat(1, 100)))

\* a carbonByRegion literal without the entry of ca-central-1
PredictRegionsWithoutCanada == <<"us-east-1", "us-west-2", "eu-west-1", "ap-southeast-1">>

\* predict: the keys of the carbonByRegion literal, in insertion order
PredictRegions == <<"us-east-1", "us-west-2", "eu-west-1", "ap-southeast-1", "ca-central-1">>

\* predict: the factor each key of the carbonByRegion literal multiplies baseCarbon by
PredictFactor(r) ==
  CASE r = "us-east-1" -> Rat(38, 100)
    [] r = "us-west-2" -> Rat(28, 100)
    [] r = "eu-west-1" -> Rat(32, 100)
    [] r = "ap-southeast-1" -> Rat(48, 100)
    [] r = "ca-central-1" -> Rat(12, 100)

\* predict: the carbonByRegion object
CarbonByRegion(fd) ==
  LET baseCarbon == BaseCarbon(fd)
  IN  [r \in {PredictRegions[i] : i \in DOMAIN PredictRegions} |->
         JsMul(baseCarbon, PredictFactor(r))]

\* Object.entries(obj) for an object whose keys were inserted in the order keys
Entries(obj, keys) == [i \in DOMAIN keys |-> <<keys[i], obj[keys[i]]>>]

\* the comparator with its operands exchanged, b - a
CompareCarbonDescending(x, y) == JsSub(y[2], x[2])

\* the comparator ([,a], [,b]) => a - b
CompareCarbon(x, y) == JsSub(x[2], y[2])

\* Array.prototype.sort is stable: an element moves in front of another only
\* when the comparator returns a negative number (NaN counts as 0)
RECURSIVE InsertSorted(_, _)
InsertSorted(e, s) ==
  IF s = <<>> THEN <<e>>
  ELSE LET c == CompareCarbon(e, Head(s))
       IN  IF c # NaN /\ JsSign(c) < 0 THEN <<e>> \o s
           ELSE <<Head(s)>> \o InsertSorted(e, Tail(s))

RECURSIVE SortEntries(_)
SortEntries(s) ==
  IF s = <<>> THEN <<>>
  ELSE InsertSorted(s[Len(s)], SortEntries(SubSeq(s, 1, Len(s) - 1)))

\* predict: Object.entries(carbonByRegion).sort(...)[0][0]
GreenestRegion(carbonByRegion) ==
  SortEntries(Entries(carbonByRegion, PredictRegions))[1][1]

\* a predict whose carbon figures are scaled by the random draw
PredictRandomCarbon(fd, jobId) ==
  LET base == CarbonByRegion(fd)
      carbonByRegion == [r \in DOMAIN base |-> JsMul(base[r], Num(jobId))]
      currentCarbon == Lookup(carbonByRegion, fd.region)
      greenestRegion == GreenestRegion(carbonByRegion)
      bestCarbon == carbonByRegion[greenestRegion]
      savings == JsSub(currentCarbon, bestCarbon)
      savingsPercentage == JsMul(JsDiv(savings, currentCarbon), Num(100))
  IN  [predicted_carbon_kg |-> currentCarbon,
       carbon_by_region |-> carbonByRegion,
       greenest_region |-> greenestRegion,
       potential_savings_kg |-> savings,
       savings_percentage |-> savingsPercentage,
       region |-> fd.region,
       job_id |-> jobId]

\* predict: the object the promise resolves with; jobId stands for the
\* random string Math.random() yields
Predict(fd, jobId) ==
  LET carbonByRegion == CarbonByRegion(fd)
      currentCarbon == Lookup(carbonByRegion, fd.region)
      greenestRegion == GreenestRegion(carbonByRegion)
      bestCarbon == carbonByRegion[greenestRegion]
      savings == JsSub(currentCarbon, bestCarbon)
      savingsPercentage == JsMul(JsDiv(savings, currentCarbon), Num(100))
  IN  [predicted_carbon_kg |-> currentCarbon,
       carbon_by_region |-> carbonByRegion,
       greenest_region |-> greenestRegion,
       potential_savings_kg |-> savings,
       savings_percentage |-> savingsPercentage,
       region |-> fd.region,
       job_id |-> jobId]

\* calculateEstimatedPower: the modelPower literal
ModelPower ==
  [m \in {"ResNet50", "BERT-Base", "GPT-2", "ViT", "YOLO", "CNN-Small"} |->
     CASE m = "ResNet50" -> Num(180)
       [] m = "BERT-Base" -> Num(250)
       [] m = "GPT-2" -> Num(350)
       [] m = "ViT" -> Num(220)
       [] m = "YOLO" -> Num(150)
       [] m = "CNN-Small" -> Num(80)]

\* calculateEstimatedPower: the gpuPower literal
GpuPower ==
  [g \in {"T4", "V100", "A100"} |->
     CASE g = "T4" -> Num(70)
       [] g = "V100" -> Num(300)
       [] g = "A100" -> Num(400)]

\* calculateEstimatedPower with the two defaults exchanged
CalculateEstimatedPowerSwappedDefaults(fd) ==
  JsAdd(OrDefault(Lookup(ModelPower, fd.model_type), Num(250)),
        JsMul(OrDefault(Lookup(GpuPower, fd.gpu_type), Num(200)), fd.gpu_count))

\* calculateEstimatedPower(formData)
CalculateEstimatedPower(fd) ==
  JsAdd(OrDefault(Lookup(ModelPower, fd.model_type), Num(200)),
        JsMul(OrDefault(Lookup(GpuPower, fd.gpu_type), Num(250)), fd.gpu_count))

\* ------------------------------------------------------------------------
\* State
\* ------------------------------------------------------------------------
VARIABLES
  formData,        \* CarbonCalculator: the form fields
  loading,         \* CarbonCalculator: a submission is pending
  result,          \* CarbonCalculator: the displayed prediction, or Null
  error,           \* CarbonCalculator: the displayed error message
  carbonData,      \* CarbonCalculator: the displayed carbon-intensity snapshot
  updatingCarbon,  \* CarbonCalculator: a refresh is pending
  refreshTrigger,  \* App: bumped by every new prediction
  timers,          \* the service calls whose timer is running, in the order made
  edits,           \* number of form edits made so far
  lastEstimate,    \* the last prediction made: request, snapshot held then, response
  callForm,        \* direct caller of the service: the workload it passes
  callSnapshot,    \* direct caller of the service: the snapshot it holds
  powerLog,        \* direct caller: the last two power estimates it obtained
  dashStats,       \* Dashboard: stats, or Null
  dashRecentJobs,  \* Dashboard: recentJobs
  dashLoading,     \* Dashboard: loading
  dashError,       \* Dashboard: error
  dashCarbonData,  \* Dashboard: carbonData
  dashTimers,      \* Dashboard: the fetchData calls whose requests are pending
  prevEstimate,    \* the prediction made before the last one, or Null
  recorded,        \* the responses handed to onNewPrediction so far
  statsBasis,      \* what had been recorded when the displayed stats were computed
  lastRefresh,     \* the data of the last completed refresh, or Null
  lastRead,        \* the last getCarbonData read: the refresh it followed, its data
  refreshOutcome,  \* how the last refresh ended: "none", "resolved", "rejected"
  estimateAfterFailure,  \* the displayed prediction completed after a failed refresh
  workloadData,    \* WorkloadCreator: the form fields
  wcLoading,       \* WorkloadCreator: loading
  wcResult,        \* WorkloadCreator: result, or Null
  wcError,         \* WorkloadCreator: error
  workloadsCreated,  \* the number of optimizations handed to onWorkloadCreated
  latestFetch      \* the fetchData call started last: how it ended, the jobs it got

vars == <<formData, loading, result, error, carbonData, updatingCarbon,
          refreshTrigger, timers, edits,
          lastEstimate, callForm, callSnapshot, powerLog,
          dashStats, dashRecentJobs, dashLoading, dashError, dashCarbonData,
          dashTimers,
          prevEstimate, recorded, statsBasis, lastRefresh, lastRead,
          refreshOutcome, estimateAfterFailure,
          workloadData, wcLoading, wcResult, wcError, workloadsCreated,
          latestFetch>>

dashVars == <<dashStats, dashRecentJobs, dashLoading, dashError, dashCarbonData,
              dashTimers, latestFetch>>

wcVars == <<workloadData, wcLoading, wcResult, wcError, workloadsCreated>>

histVars == <<prevEstimate, recorded, statsBasis, lastRefresh, lastRead,
              refreshOutcome, estimateAfterFailure>>

calcVars == <<formData, loading, result, error, carbonData, updatingCarbon,
              refreshTrigger, timers, edits>>

callVars == <<callForm, callSnapshot, powerLog>>

\* useState({...}) of formData
InitialFormData ==
  [model_type |-> "ResNet50",
   batch_size |-> Num(32),
   dataset_size_gb |-> Num(100),
   gpu_count |-> Num(2),
   gpu_type |-> "V100",
   duration_hours |-> Num(4),
   region |-> "us-east-1"]

\* an object without keys
EmptyObject == [k \in {} |-> Undefined]

\* a call of a mockBackend function with its argument: the promise it
\* returned is resolved when the timer set by the call fires
Call(name, arg) == [call |-> name, arg |-> arg]

\* delays with a getCarbonData slower than refreshCarbonData
DelaySlowLoad(name) ==
  CASE name = "getCarbonData" -> 2000
    [] name = "refreshCarbonData" -> 1000
    [] name = "predict" -> 1500
    [] name = "optimizeWorkload" -> 1500

\* the delay in ms of the setTimeout of a mockBackend function
Delay(name) ==
  CASE name = "getCarbonData" -> 500
    [] name = "refreshCarbonData" -> 1000
    [] name = "predict" -> 1500
    [] name = "optimizeWorkload" -> 1500

\* timers fire in the order of their deadlines: the timer of the i-th pending
\* call can fire unless a call made earlier, with a delay not longer, is pending
CanFire(i) == \A j \in 1..(i - 1) : Delay(timers[j].call) > Delay(timers[i].call)

\* the pending calls without the i-th
WithoutTimer(i) == SubSeq(timers, 1, i - 1) \o SubSeq(timers, i + 1, Len(timers))

\* the number of pending calls of a function
Pending(name) == Cardinality({i \in DOMAIN timers : timers[i].call = name})

\* a call of Dashboard's fetchData: its three requests are pending until the
\* slowest of them, getStats, has resolved; refresh is the refresh the call
\* followed
FetchCall == [call |-> "fetchData", refresh |-> lastRefresh]

\* the fetchData call started last has not ended
PendingFetch == [outcome |-> "pending", jobs |-> <<>>]

\* Dashboard when mounted: the useState initial values, and the fetchData call
\* its effect has made
DashboardInit ==
  /\ dashStats = Null
  /\ dashRecentJobs = <<>>
  /\ dashLoading = TRUE
  /\ dashError = ""
  /\ dashCarbonData = EmptyObject
  /\ dashTimers = <<[call |-> "fetchData", refresh |-> Null]>>
  /\ latestFetch = PendingFetch

\* useState({...}) of workloadData
InitialWorkloadData ==
  [name |-> "Image Classification Training",
   workload_type |-> "model_training",
   cpu_cores |-> Num(4),
   memory_gb |-> Num(16),
   gpu_count |-> Num(1),
   duration_hours |-> Num(2),
   dataset_size |-> Num(50)]

\* WorkloadCreator when mounted: the useState initial values
WorkloadCreatorInit ==
  /\ workloadData = InitialWorkloadData
  /\ wcLoading = FALSE
  /\ wcResult = Null
  /\ wcError = ""
  /\ workloadsCreated = 0

\* nothing has been predicted, refreshed or read yet
HistoryInit ==
  /\ prevEstimate = Null
  /\ recorded = <<>>
  /\ statsBasis = <<>>
  /\ lastRefresh = Null
  /\ lastRead = Null
  /\ refreshOutcome = "none"
  /\ estimateAfterFailure = FALSE

\* the state of the mounted components: the useState initial values, and the
\* getCarbonData call the mount effect has made
Init ==
  /\ formData = InitialFormData
  /\ loading = FALSE
  /\ result = Null
  /\ error = ""
  /\ carbonData = EmptyObject
  /\ updatingCarbon = FALSE
  /\ refreshTrigger = 0
  /\ timers = <<Call("getCarbonData", Null)>>
  /\ edits = 0
  /\ lastEstimate = Null
  /\ callForm = InitialFormData
  /\ callSnapshot = EmptyObject
  /\ powerLog = <<>>
  /\ DashboardInit
  /\ HistoryInit
  /\ WorkloadCreatorInit

\* ------------------------------------------------------------------------
\* CarbonCalculator
\* ------------------------------------------------------------------------
\* the text of an emptied number input
EmptyInput == [t |-> "empty"]

\* parseFloat of the text of a number input: the empty text gives NaN
ParseFloat(text) == IF text = EmptyInput THEN NaN ELSE text

\* the values of the model <option>s
ModelOptions == {"ResNet50", "BERT-Base", "GPT-2", "ViT", "YOLO", "CNN-Small"}

\* the values of the GPU <option>s
GpuOptions == {"T4", "V100", "A100"}

\* what an edit of the field name can deliver as e.target.value
InputValues(name) ==
  CASE name = "model_type" -> ModelOptions
    [] name = "gpu_type" -> GpuOptions
    [] name = "region" -> DOMAIN carbonData
    [] name = "batch_size" -> {Num(8 * k) : k \in 1..MaxBatchSteps}
    [] name = "gpu_count" -> {Num(k) : k \in 1..MaxGpuCount}
    [] name = "dataset_size_gb" -> {Num(k) : k \in 0..MaxDatasetGb} \cup {EmptyInput}
    [] name = "duration_hours" -> {Rat(k, 2) : k \in 0..MaxHalfHours} \cup {EmptyInput}

\* handleInputChange
HandleInputChange(name, value) ==
  /\ edits < MaxEdits
  /\ formData' = [formData EXCEPT ![name] =
                    IF name \in {"model_type", "gpu_type", "region"}
                    THEN value ELSE ParseFloat(value)]
  /\ edits' = edits + 1
  /\ UNCHANGED <<loading, result, error, carbonData, updatingCarbon, refreshTrigger,
                 timers, lastEstimate, callVars, wcVars, dashVars, histVars>>

\* a number input is valid when it is empty or within min..max on a step
NumberInputValid(v, min, max, step) ==
  \/ v = NaN
  \/ /\ IsNum(v)
     /\ JsLe(min, v)
     /\ JsLe(v, max)
     /\ JsDiv(JsSub(v, min), step).d = 1

\* the browser submits the form only when every input satisfies its constraints
FormValid(fd) ==
  /\ NumberInputValid(fd.dataset_size_gb, Num(1), Num(1000), Num(1))
  /\ NumberInputValid(fd.duration_hours, Rat(1, 2), Num(168), Rat(1, 2))

\* fewer than max calculator submissions have completed or are pending
SubmitsLeft(max) == Len(recorded) + Pending("predict") < max

\* a handleSubmit behind a button that is not disabled while loading
HandleSubmitWhileLoading ==
  /\ FormValid(formData)
  /\ loading' = TRUE
  /\ error' = ""
  /\ timers' = Append(timers, Call("predict", formData))
  /\ UNCHANGED <<formData, result, carbonData, updatingCarbon, refreshTrigger,
                 edits, lastEstimate, callVars, wcVars, dashVars, histVars>>

\* handleSubmit up to the await: the submit button is disabled while loading
HandleSubmit ==
  /\ ~loading
  /\ FormValid(formData)
  /\ loading' = TRUE
  /\ error' = ""
  /\ timers' = Append(timers, Call("predict", formData))
  /\ UNCHANGED <<formData, result, carbonData, updatingCarbon, refreshTrigger,
                 edits, lastEstimate, callVars, wcVars, dashVars, histVars>>

\* a handler that sets the trigger instead of incrementing it
HandleNewPredictionSetting(prev) == 1

\* handleNewPrediction: the updater prev => prev + 1 applied to the state
HandleNewPrediction(prev) == prev + 1

\* a handleSubmit that clears the error again when the promise resolves
PredictResolveClearingError(i, jobId) ==
  /\ i \in DOMAIN timers
  /\ timers[i].call = "predict"
  /\ CanFire(i)
  /\ LET response == Predict(timers[i].arg, jobId)
     IN  /\ result' = response
         /\ lastEstimate' = [request |-> timers[i].arg,
                             snapshot |-> carbonData,
                             response |-> response]
         /\ recorded' = Append(recorded, response)
  /\ prevEstimate' = lastEstimate
  /\ estimateAfterFailure' = (refreshOutcome = "rejected")
  /\ timers' = WithoutTimer(i)
  /\ refreshTrigger' = HandleNewPrediction(refreshTrigger)
  /\ loading' = FALSE
  /\ error' = ""
  /\ dashError' = ""
  /\ dashTimers' = Append(dashTimers, FetchCall)
  /\ latestFetch' = PendingFetch
  /\ UNCHANGED <<formData, carbonData, updatingCarbon, edits, callVars, wcVars,
                 dashStats, dashRecentJobs, dashLoading, dashCarbonData,
                 statsBasis, lastRefresh, lastRead, refreshOutcome>>

\* the timer of a predict call fires: the promise resolves and handleSubmit
\* continues after the await, through onNewPrediction and finally; the new
\* refreshTrigger re-runs the effect of Dashboard, which calls fetchData
PredictResolve(i, jobId) ==
  /\ i \in DOMAIN timers
  /\ timers[i].call = "predict"
  /\ CanFire(i)
  /\ LET response == Predict(timers[i].arg, jobId)
     IN  /\ result' = response
         /\ lastEstimate' = [request |-> timers[i].arg,
                             snapshot |-> carbonData,
                             response |-> response]
         /\ recorded' = Append(recorded, response)
  /\ prevEstimate' = lastEstimate
  /\ estimateAfterFailure' = (refreshOutcome = "rejected")
  /\ timers' = WithoutTimer(i)
  /\ refreshTrigger' = HandleNewPrediction(refreshTrigger)
  /\ loading' = FALSE
  /\ dashError' = ""
  /\ dashTimers' = Append(dashTimers, FetchCall)
  /\ latestFetch' = PendingFetch
  /\ UNCHANGED <<formData, error, carbonData, updatingCarbon, edits, callVars, wcVars,
                 dashStats, dashRecentJobs, dashLoading, dashCarbonData,
                 statsBasis, lastRefresh, lastRead, refreshOutcome>>

\* a setter that replaces, in a snapshot already held, the entry of one region
\* only
SetCarbonDataOneRegion(held, data) ==
  [r \in DOMAIN data |->
     IF r \in DOMAIN held /\ r # "us-east-1" THEN held[r] ELSE data[r]]

\* a state setter called with an object: the state held is replaced by it
SetCarbonData(held, data) == data

\* the timer of the mount effect's getCarbonData call fires: loadCarbonData
\* continues after the await
LoadResolve(i) ==
  /\ i \in DOMAIN timers
  /\ timers[i].call = "getCarbonData"
  /\ CanFire(i)
  /\ timers' = WithoutTimer(i)
  /\ carbonData' = SetCarbonData(carbonData, CarbonTable)
  /\ lastRead' = [refresh |-> Null, data |-> CarbonTable]
  /\ UNCHANGED <<formData, loading, result, error, updatingCarbon, refreshTrigger,
                 edits, lastEstimate, callVars, wcVars, dashVars,
                 prevEstimate, recorded, statsBasis, lastRefresh, refreshOutcome,
                 estimateAfterFailure>>

\* refreshCarbonData up to the await: the button is disabled while updating
RefreshCarbonData ==
  /\ ~updatingCarbon
  /\ updatingCarbon' = TRUE
  /\ timers' = Append(timers, Call("refreshCarbonData", Null))
  /\ UNCHANGED <<formData, loading, result, error, carbonData, refreshTrigger,
                 edits, lastEstimate, callVars, wcVars, dashVars, histVars>>

\* the timer of a refreshCarbonData call fires: refreshCarbonData continues
\* after the await, through finally
RefreshResolve(i) ==
  /\ i \in DOMAIN timers
  /\ timers[i].call = "refreshCarbonData"
  /\ CanFire(i)
  /\ timers' = WithoutTimer(i)
  /\ carbonData' = SetCarbonData(carbonData, RefreshedCarbonTable)
  /\ updatingCarbon' = FALSE
  /\ lastRefresh' = RefreshedCarbonTable
  /\ refreshOutcome' = "resolved"
  /\ UNCHANGED <<formData, loading, result, error, refreshTrigger, edits,
                 lastEstimate, callVars, wcVars, dashVars,
                 prevEstimate, recorded, statsBasis, lastRead, estimateAfterFailure>>

FieldNames ==
  {"model_type", "batch_size", "dataset_size_gb", "gpu_count", "gpu_type",
   "duration_hours", "region"}

Next ==
  \/ \E name \in FieldNames : \E value \in InputValues(name) : HandleInputChange(name, value)
  \/ SubmitsLeft(MaxSubmits) /\ HandleSubmit
  \/ \E i \in DOMAIN timers : \E jobId \in 1..MaxJobIds : PredictResolve(i, jobId)
  \/ \E i \in DOMAIN timers : LoadResolve(i)
  \/ RefreshCarbonData
  \/ \E i \in DOMAIN timers : RefreshResolve(i)

Spec == Init /\ [][Next]_vars

\* ------------------------------------------------------------------------
\* Dashboard
\* ------------------------------------------------------------------------
\* the number of jobs a getJobs call lists: Dashboard asks for 10, the model
\* for MaxJobsListed
MaxJobsListed == 2

\* the number of fetchData calls that can be pending when Refresh is clicked
MaxPendingFetches == 1

\* stats whose total counts one job more than the breakdowns
GetStatsMiscounted ==
  [total_jobs |-> Num(48),
   total_carbon_predicted_kg |-> Rat(1256, 10),
   total_potential_savings_kg |-> Rat(423, 10),
   average_savings_percentage |-> Rat(337, 10),
   jobs_by_region |->
     [r \in {"us-east-1", "us-west-2", "eu-west-1", "ap-southeast-1", "ca-central-1"} |->
        CASE r = "us-east-1" -> Num(15)
          [] r = "us-west-2" -> Num(12)
          [] r = "eu-west-1" -> Num(10)
          [] r = "ap-southeast-1" -> Num(7)
          [] r = "ca-central-1" -> Num(3)],
   jobs_by_model |->
     [m \in {"ResNet50", "BERT-Base", "GPT-2", "ViT", "YOLO", "CNN-Small"} |->
        CASE m = "ResNet50" -> Num(18)
          [] m = "BERT-Base" -> Num(12)
          [] m = "GPT-2" -> Num(8)
          [] m = "ViT" -> Num(5)
          [] m = "YOLO" -> Num(3)
          [] m = "CNN-Small" -> Num(1)]]

\* the object mockBackend.getStats resolves with
GetStats ==
  [total_jobs |-> Num(47),
   total_carbon_predicted_kg |-> Rat(1256, 10),
   total_potential_savings_kg |-> Rat(423, 10),
   average_savings_percentage |-> Rat(337, 10),
   jobs_by_region |->
     [r \in {"us-east-1", "us-west-2", "eu-west-1", "ap-southeast-1", "ca-central-1"} |->
        CASE r = "us-east-1" -> Num(15)
          [] r = "us-west-2" -> Num(12)
          [] r = "eu-west-1" -> Num(10)
          [] r = "ap-southeast-1" -> Num(7)
          [] r = "ca-central-1" -> Num(3)],
   jobs_by_model |->
     [m \in {"ResNet50", "BERT-Base", "GPT-2", "ViT", "YOLO", "CNN-Small"} |->
        CASE m = "ResNet50" -> Num(18)
          [] m = "BERT-Base" -> Num(12)
          [] m = "GPT-2" -> Num(8)
          [] m = "ViT" -> Num(5)
          [] m = "YOLO" -> Num(3)
          [] m = "CNN-Small" -> Num(1)]]

\* the model types getJobs cycles over
JobModelTypes == <<"ResNet50", "BERT-Base", "GPT-2", "ViT">>

\* the regions getJobs cycles over
JobRegions ==
  <<"us-east-1", "us-west-2", "eu-west-1", "ap-southeast-1", "ca-central-1">>

\* the array mockBackend.getJobs(limit) resolves with, draws[i] being the
\* random job id drawn for the i-th job; the three random figures of a job
\* are left out
GetJobs(limit, draws) ==
  [i \in 1..limit |->
     [job_id |-> draws[i],
      model_type |-> JobModelTypes[((i - 1) % 4) + 1],
      region |-> JobRegions[((i - 1) % 5) + 1]]]

\* fetchData up to the await, called by the Retry button, shown with an error,
\* or the Refresh button, shown with the stats
FetchData ==
  /\ ~dashLoading
  /\ dashError # "" \/ dashStats # Null
  /\ Len(dashTimers) < MaxPendingFetches
  /\ dashError' = ""
  /\ dashTimers' = Append(dashTimers, FetchCall)
  /\ latestFetch' = PendingFetch
  /\ UNCHANGED <<calcVars, lastEstimate, callVars, wcVars, dashStats, dashRecentJobs,
                 dashLoading, dashCarbonData, histVars>>

\* a fetchData that fails after setStats: catch sets the error
FetchResolveFailingAfterSetStats(draws) ==
  /\ dashTimers # <<>>
  /\ dashStats' = GetStats
  /\ dashError' = "Failed to load dashboard data."
  /\ dashLoading' = FALSE
  /\ dashTimers' = Tail(dashTimers)
  /\ latestFetch' = (IF Len(dashTimers) = 1
                     THEN [outcome |-> "rejected", jobs |-> <<>>]
                     ELSE latestFetch)
  /\ UNCHANGED <<calcVars, lastEstimate, callVars, wcVars,
                 dashRecentJobs, dashCarbonData, histVars>>

\* the three requests of the oldest pending fetchData call have resolved:
\* fetchData continues after the await, through finally
FetchResolve(draws) ==
  /\ dashTimers # <<>>
  /\ dashStats' = GetStats
  /\ dashRecentJobs' = GetJobs(MaxJobsListed, draws)
  /\ dashCarbonData' = SetCarbonData(dashCarbonData, CarbonTable)
  /\ dashLoading' = FALSE
  /\ dashTimers' = Tail(dashTimers)
  /\ latestFetch' = (IF Len(dashTimers) = 1
                     THEN [outcome |-> "resolved", jobs |-> GetJobs(MaxJobsListed, draws)]
                     ELSE latestFetch)
  /\ statsBasis' = recorded
  /\ lastRead' = [refresh |-> Head(dashTimers).refresh, data |-> CarbonTable]
  /\ UNCHANGED <<calcVars, lastEstimate, callVars, wcVars, dashError,
                 prevEstimate, recorded, lastRefresh, refreshOutcome,
                 estimateAfterFailure>>

\* the fetchData call of the mount effect, which takes 800 ms at most, has
\* ended: no predict timer (1500 ms) fires before
FirstFetchEnded == ~dashLoading

\* the application with its form left as it is
DashNext ==
  \/ SubmitsLeft(MaxSubmits) /\ HandleSubmit
  \/ /\ FirstFetchEnded
     /\ \E i \in DOMAIN timers : \E jobId \in 1..MaxJobIds : PredictResolve(i, jobId)
  \/ \E i \in DOMAIN timers : LoadResolve(i)
  \/ RefreshCarbonData
  \/ \E i \in DOMAIN timers : RefreshResolve(i)
  \/ FetchData
  \/ \E draws \in [1..MaxJobsListed -> 1..MaxJobIds] : FetchResolve(draws)

SpecDash == Init /\ [][DashNext]_vars

\* one of the three requests of a pending fetchData call is rejected, after
\* 500, 600 or 800 ms: Promise.all is rejected and fetchData continues in
\* catch, through finally
FetchReject(i) ==
  /\ i \in DOMAIN dashTimers
  /\ dashError' = "Failed to load dashboard data."
  /\ dashLoading' = FALSE
  /\ dashTimers' = SubSeq(dashTimers, 1, i - 1) \o SubSeq(dashTimers, i + 1, Len(dashTimers))
  /\ latestFetch' = (IF i = Len(dashTimers)
                     THEN [outcome |-> "rejected", jobs |-> <<>>]
                     ELSE latestFetch)
  /\ UNCHANGED <<calcVars, lastEstimate, callVars, wcVars,
                 dashStats, dashRecentJobs, dashCarbonData, histVars>>

\* the application, its form left as it is, with a service whose dashboard
\* requests can fail
DashFailureNext ==
  \/ SubmitsLeft(MaxSubmits) /\ HandleSubmit
  \/ /\ FirstFetchEnded
     /\ \E i \in DOMAIN timers : \E jobId \in 1..MaxJobIds : PredictResolve(i, jobId)
  \/ \E i \in DOMAIN timers : LoadResolve(i)
  \/ FetchData
  \/ \E draws \in [1..MaxJobsListed -> 1..MaxJobIds] : FetchResolve(draws)
  \/ \E i \in DOMAIN dashTimers : FetchReject(i)

SpecDashFailure == Init /\ [][DashFailureNext]_vars

\* ------------------------------------------------------------------------
\* WorkloadCreator
\* ------------------------------------------------------------------------
\* optimizeWorkload: the object its promise resolves with
OptimizeWorkload(workload) ==
  LET baseCarbon ==
        JsAdd(JsAdd(JsAdd(JsMul(workload.cpu_cores, Rat(1, 10)),
                          JsMul(workload.memory_gb, Rat(5, 100))),
                    JsMul(workload.gpu_count, Rat(5, 10))),
              JsMul(workload.duration_hours, Rat(2, 10)))
  IN  [name |-> workload.name,
       workload_type |-> workload.workload_type,
       cpu_cores |-> workload.cpu_cores,
       memory_gb |-> workload.memory_gb,
       gpu_count |-> workload.gpu_count,
       duration_hours |-> workload.duration_hours,
       dataset_size |-> workload.dataset_size,
       optimized_cpu_cores |-> JsMax(Num(2), JsFloor(JsMul(workload.cpu_cores, Rat(8, 10)))),
       optimized_memory_gb |-> JsMax(Num(8), JsFloor(JsMul(workload.memory_gb, Rat(9, 10)))),
       optimized_gpu_count |-> JsMax(Num(1), JsFloor(workload.gpu_count)),
       estimated_carbon |-> baseCarbon,
       optimized_carbon |-> JsMul(baseCarbon, Rat(7, 10)),
       recommended_region |-> "us-west-2",
       cost_savings |-> Num(25),
       carbon_savings |-> Num(30)]

\* fewer than max workload submissions have completed or are pending
WorkloadsLeft(max) == workloadsCreated + Pending("optimizeWorkload") < max

\* WorkloadCreator's handleSubmit up to the await: the submit button is
\* disabled while loading and while the name is empty
WcHandleSubmit ==
  /\ ~wcLoading
  /\ workloadData.name # ""
  /\ wcLoading' = TRUE
  /\ wcError' = ""
  /\ timers' = Append(timers, Call("optimizeWorkload", workloadData))
  /\ UNCHANGED <<formData, loading, result, error, carbonData, updatingCarbon,
                 refreshTrigger, edits, lastEstimate, callVars, workloadData,
                 wcResult, workloadsCreated, dashVars, histVars>>

\* the timer of optimizeWorkload fires: WorkloadCreator's handleSubmit
\* continues after the await, through onWorkloadCreated and finally; the new
\* refreshTrigger re-runs the effect of Dashboard, which calls fetchData
WcResolve(i) ==
  /\ i \in DOMAIN timers
  /\ timers[i].call = "optimizeWorkload"
  /\ CanFire(i)
  /\ wcResult' = OptimizeWorkload(timers[i].arg)
  /\ workloadsCreated' = workloadsCreated + 1
  /\ timers' = WithoutTimer(i)
  /\ refreshTrigger' = HandleNewPrediction(refreshTrigger)
  /\ wcLoading' = FALSE
  /\ dashError' = ""
  /\ dashTimers' = Append(dashTimers, FetchCall)
  /\ latestFetch' = PendingFetch
  /\ UNCHANGED <<formData, loading, result, error, carbonData, updatingCarbon,
                 edits, lastEstimate, callVars, workloadData, wcError,
                 dashStats, dashRecentJobs, dashLoading, dashCarbonData, histVars>>

\* ------------------------------------------------------------------------
\* CarbonCalculator with a carbon-data service whose calls can fail
\* ------------------------------------------------------------------------
\* the promise of the mount effect's getCarbonData call is rejected:
\* loadCarbonData continues in catch
LoadReject(i) ==
  /\ i \in DOMAIN timers
  /\ timers[i].call = "getCarbonData"
  /\ CanFire(i)
  /\ timers' = WithoutTimer(i)
  /\ error' = "Failed to load carbon intensity data"
  /\ UNCHANGED <<formData, loading, result, carbonData, updatingCarbon,
                 refreshTrigger, edits, lastEstimate, callVars, wcVars, dashVars, histVars>>

\* a catch that drops the snapshot held when the refresh is rejected
RefreshRejectDroppingSnapshot(i) ==
  /\ i \in DOMAIN timers
  /\ timers[i].call = "refreshCarbonData"
  /\ CanFire(i)
  /\ timers' = WithoutTimer(i)
  /\ updatingCarbon' = FALSE
  /\ refreshOutcome' = "rejected"
  /\ carbonData' = EmptyObject
  /\ UNCHANGED <<formData, loading, result, error, refreshTrigger,
                 edits, lastEstimate, callVars, wcVars, dashVars,
                 prevEstimate, recorded, statsBasis, lastRefresh, lastRead,
                 estimateAfterFailure>>

\* the promise of a refreshCarbonData call is rejected: refreshCarbonData
\* continues in catch, through finally
RefreshReject(i) ==
  /\ i \in DOMAIN timers
  /\ timers[i].call = "refreshCarbonData"
  /\ CanFire(i)
  /\ timers' = WithoutTimer(i)
  /\ updatingCarbon' = FALSE
  /\ refreshOutcome' = "rejected"
  /\ UNCHANGED <<formData, loading, result, error, carbonData, refreshTrigger,
                 edits, lastEstimate, callVars, wcVars, dashVars,
                 prevEstimate, recorded, statsBasis, lastRefresh, lastRead,
                 estimateAfterFailure>>

\* the calculator with its form left as it is
\* a handleSubmit that clears loading in try only
PredictRejectWithoutFinally(i) ==
  /\ i \in DOMAIN timers
  /\ timers[i].call = "predict"
  /\ CanFire(i)
  /\ timers' = WithoutTimer(i)
  /\ error' = "Failed to calculate carbon emissions."
  /\ UNCHANGED <<formData, loading, result, carbonData, updatingCarbon, refreshTrigger,
                 edits, lastEstimate, callVars, wcVars, dashVars, histVars>>

\* the promise of a predict call is rejected: handleSubmit continues in
\* catch, with an error that has no message, through finally
PredictReject(i) ==
  /\ i \in DOMAIN timers
  /\ timers[i].call = "predict"
  /\ CanFire(i)
  /\ timers' = WithoutTimer(i)
  /\ error' = "Failed to calculate carbon emissions."
  /\ loading' = FALSE
  /\ UNCHANGED <<formData, result, carbonData, updatingCarbon, refreshTrigger,
                 edits, lastEstimate, callVars, wcVars, dashVars, histVars>>

FailureNext ==
  \/ SubmitsLeft(MaxSubmits) /\ HandleSubmit
  \/ \E i \in DOMAIN timers : \E jobId \in 1..MaxJobIds : PredictResolve(i, jobId)
  \/ \E i \in DOMAIN timers : LoadResolve(i)
  \/ RefreshCarbonData
  \/ \E i \in DOMAIN timers : RefreshResolve(i)
  \/ \E i \in DOMAIN timers : LoadReject(i)
  \/ \E i \in DOMAIN timers : RefreshReject(i)
  \/ \E i \in DOMAIN timers : PredictReject(i)

SpecFetchFailure == Init /\ [][FailureNext]_vars

\* the timer of a pending getCarbonData call fires
SettleLoad == \E i \in DOMAIN timers : LoadReject(i) \/ LoadResolve(i)

\* the timer of a pending refreshCarbonData call fires
SettleRefresh == \E i \in DOMAIN timers : RefreshReject(i) \/ RefreshResolve(i)

\* the timer of a pending predict call fires
SettlePredict ==
  \E i \in DOMAIN timers :
    PredictReject(i) \/ \E jobId \in 1..MaxJobIds : PredictResolve(i, jobId)

\* every timer set fires in the end: every promise of the service is settled,
\* one way or the other
SpecFetchFailureFair ==
  /\ Init
  /\ [][FailureNext]_vars
  /\ WF_vars(SettleLoad)
  /\ WF_vars(SettleRefresh)
  /\ WF_vars(SettlePredict)

\* ------------------------------------------------------------------------
\* The two forms of the application
\* ------------------------------------------------------------------------
\* the calculator, with its form left as it is and a service whose predict
\* calls can fail, next to WorkloadCreator
FormsNext ==
  \/ SubmitsLeft(MaxSubmits + 1) /\ HandleSubmit
  \/ \E i \in DOMAIN timers : \E jobId \in 1..MaxJobIds : PredictResolve(i, jobId)
  \/ \E i \in DOMAIN timers : PredictReject(i)
  \/ \E i \in DOMAIN timers : LoadResolve(i)
  \/ RefreshCarbonData
  \/ \E i \in DOMAIN timers : RefreshResolve(i)
  \/ WorkloadsLeft(MaxSubmits + 1) /\ WcHandleSubmit
  \/ \E i \in DOMAIN timers : WcResolve(i)

SpecForms == Init /\ [][FormsNext]_vars

\* ------------------------------------------------------------------------
\* The resource inputs of WorkloadCreator
\* ------------------------------------------------------------------------
\* the CPU cores input takes 1..64, the model 1..MaxCpuCores
MaxCpuCores == 3

\* the memory input takes 1..512, the model 1..MaxMemoryGb
MaxMemoryGb == 9

\* the GPU count input takes 0..8, the model 0..MaxWorkloadGpus
MaxWorkloadGpus == 2

WorkloadFieldNames == {"cpu_cores", "memory_gb", "gpu_count"}

\* what an edit of a resource input can deliver as e.target.value: the values
\* between the min and the max of the input
WorkloadInputValues(name) ==
  CASE name = "cpu_cores" -> {Num(k) : k \in 1..MaxCpuCores}
    [] name = "memory_gb" -> {Num(k) : k \in 1..MaxMemoryGb}
    [] name = "gpu_count" -> {Num(k) : k \in 0..MaxWorkloadGpus}

\* WorkloadCreator's handleInputChange
WcHandleInputChange(name, value) ==
  /\ workloadData' = [workloadData EXCEPT ![name] =
                        IF name \in {"workload_type", "name"}
                        THEN value ELSE ParseFloat(value)]
  /\ UNCHANGED <<calcVars, lastEstimate, callVars, wcLoading, wcResult, wcError,
                 workloadsCreated, dashVars, histVars>>

\* WorkloadCreator with its resource inputs edited, next to the calculator's
\* initial load
WorkloadNext ==
  \/ \E name \in WorkloadFieldNames : \E value \in WorkloadInputValues(name) :
       WcHandleInputChange(name, value)
  \/ WorkloadsLeft(MaxSubmits) /\ WcHandleSubmit
  \/ \E i \in DOMAIN timers : WcResolve(i)
  \/ \E i \in DOMAIN timers : LoadResolve(i)

SpecWorkload == Init /\ [][WorkloadNext]_vars

\* ------------------------------------------------------------------------
\* The service called directly, outside the calculator form
\* ------------------------------------------------------------------------
\* the numbers a direct caller passes in a numeric field, NaN among them
ApiNumbers == {Num(k) : k \in 0..MaxApiNumber} \cup {NaN}

\* the model types a direct caller passes: catalogued ones and one that is not
ApiModelTypes == {"ResNet50", "ViT", "Llama-70B"}

\* the GPU types a direct caller passes: catalogued ones and one that is not
ApiGpuTypes == {"T4", "V100", "H100"}

\* the regions a direct caller passes: the five of the table and one that is not
ApiRegions == DOMAIN CarbonTable \cup {"A"}

\* the workloads a direct caller passes to predict
ApiWorkloads ==
  [model_type : {"ResNet50", "Llama-70B"},
   batch_size : {Num(32)},
   dataset_size_gb : ApiNumbers,
   gpu_count : ApiNumbers,
   gpu_type : {"V100", "H100"},
   duration_hours : ApiNumbers,
   region : ApiRegions]

\* the workloads a direct caller passes to calculateEstimatedPower
PowerWorkloads ==
  [model_type : ApiModelTypes,
   batch_size : {Num(32)},
   dataset_size_gb : {Num(1)},
   gpu_count : ApiNumbers,
   gpu_type : ApiGpuTypes,
   duration_hours : {Num(1)},
   region : {"us-east-1"}]

\* the two-region snapshot {A: 0.4, B: 0.1}
ScenarioSnapshot ==
  [r \in {"A", "B"} |->
     [region |-> r, intensity |-> IF r = "A" THEN Rat(4, 10) ELSE Rat(1, 10),
      source |-> "scenario"]]

\* the snapshots a direct caller can hold
ApiSnapshots == {CarbonTable, RefreshedCarbonTable, ScenarioSnapshot}

\* a caller about to call predict with a workload, holding a snapshot
ApiInit ==
  /\ formData = InitialFormData
  /\ loading = FALSE
  /\ result = Null
  /\ error = ""
  /\ carbonData = EmptyObject
  /\ updatingCarbon = FALSE
  /\ refreshTrigger = 0
  /\ timers = <<Call("getCarbonData", Null)>>
  /\ edits = 0
  /\ lastEstimate = Null
  /\ callForm \in ApiWorkloads
  /\ callSnapshot \in ApiSnapshots
  /\ powerLog = <<>>
  /\ DashboardInit
  /\ HistoryInit
  /\ WorkloadCreatorInit

\* mockBackend.predict(callForm), from the call to the resolution of its promise
ApiPredict(jobId) ==
  /\ lastEstimate' = [request |-> callForm,
                      snapshot |-> callSnapshot,
                      response |-> Predict(callForm, jobId)]
  /\ prevEstimate' = lastEstimate
  /\ UNCHANGED <<calcVars, callVars, wcVars, dashVars, recorded, statsBasis, lastRefresh,
                 lastRead, refreshOutcome, estimateAfterFailure>>

ApiNext == \E jobId \in 1..MaxJobIds : ApiPredict(jobId)

SpecApi == ApiInit /\ [][ApiNext]_vars

\* a caller about to call calculateEstimatedPower with a workload
PowerInit ==
  /\ formData = InitialFormData
  /\ loading = FALSE
  /\ result = Null
  /\ error = ""
  /\ carbonData = EmptyObject
  /\ updatingCarbon = FALSE
  /\ refreshTrigger = 0
  /\ timers = <<Call("getCarbonData", Null)>>
  /\ edits = 0
  /\ lastEstimate = Null
  /\ callForm \in PowerWorkloads
  /\ callSnapshot = CarbonTable
  /\ powerLog = <<>>
  /\ DashboardInit
  /\ HistoryInit
  /\ WorkloadCreatorInit

\* mockBackend.calculateEstimatedPower(callForm); the caller keeps its last two
\* estimates
ApiEstimatePower ==
  /\ powerLog' = (IF powerLog = <<>> THEN <<>> ELSE <<powerLog[Len(powerLog)]>>)
                   \o <<[request |-> callForm, watts |-> CalculateEstimatedPower(callForm)]>>
  /\ UNCHANGED <<calcVars, lastEstimate, callForm, callSnapshot, wcVars, dashVars, histVars>>

\* the caller turns to another workload
ApiNextWorkload(w) ==
  /\ w # callForm
  /\ callForm' = w
  /\ UNCHANGED <<calcVars, lastEstimate, callSnapshot, powerLog, wcVars, dashVars, histVars>>

PowerNext ==
  \/ ApiEstimatePower
  \/ \E w \in PowerWorkloads : ApiNextWorkload(w)

SpecPower == PowerInit /\ [][PowerNext]_vars

\* ------------------------------------------------------------------------
\* Properties
\* ------------------------------------------------------------------------
\* the numeric fields of a workload hold numbers (not NaN)
NumericWorkload(fd) ==
  IsNum(fd.dataset_size_gb) /\ IsNum(fd.gpu_count) /\ IsNum(fd.duration_hours)

C2_CarbonFromCurrentSnapshot ==
  lastEstimate # Null =>
    \A r \in DOMAIN lastEstimate.snapshot :
      Lookup(lastEstimate.response.carbon_by_region, r)
        = JsMul(BaseCarbon(lastEstimate.request), lastEstimate.snapshot[r].intensity)

\* C3: a request whose region is absent from the region table never
\* completes with a result.
C3_UnknownRegionFails ==
  lastEstimate # Null =>
    lastEstimate.request.region \in {PredictRegions[i] : i \in DOMAIN PredictRegions}

\* C4: the savings percentage is 0 whenever the carbon of the requested
\* region is 0.
C4_ZeroCarbonZeroPercent ==
  (lastEstimate # Null /\ lastEstimate.response.predicted_carbon_kg = Num(0)) =>
    lastEstimate.response.savings_percentage = Num(0)

\* C5: for every prediction of a workload with numeric fields for a region
\* of the table, the savings percentage lies in 0..100 and the savings in kg
\* are not negative.
C5_SavingsInRange ==
  (/\ lastEstimate # Null
   /\ NumericWorkload(lastEstimate.request)
   /\ lastEstimate.request.region \in DOMAIN lastEstimate.response.carbon_by_region) =>
    /\ JsLe(Num(0), lastEstimate.response.savings_percentage)
    /\ JsLe(lastEstimate.response.savings_percentage, Num(100))
    /\ JsLe(Num(0), lastEstimate.response.potential_savings_kg)

\* the region codes in lexicographic order
LexicographicOrder ==
  <<"ap-southeast-1", "ca-central-1", "eu-west-1", "us-east-1", "us-west-2">>

\* the regions of a carbon map whose carbon is minimal
MinimalRegions(carbon) ==
  {r \in DOMAIN carbon : \A q \in DOMAIN carbon : JsLe(carbon[r], carbon[q])}

\* C6: when several regions have the same minimal carbon, the greenest
\* region is the lexicographically smallest of them.
C6_TieBreakLexicographic ==
  (lastEstimate # Null /\ NumericWorkload(lastEstimate.request)) =>
    LET minimal == MinimalRegions(lastEstimate.response.carbon_by_region)
        first == CHOOSE i \in DOMAIN LexicographicOrder :
                   /\ LexicographicOrder[i] \in minimal
                   /\ \A j \in 1..(i - 1) : LexicographicOrder[j] \notin minimal
    IN  lastEstimate.response.greenest_region = LexicographicOrder[first]

\* C7: the savings in kg are the carbon of the requested region minus the
\* carbon of the greenest region and the percentage is savings / carbon of
\* the requested region * 100; with the snapshot {A: 0.4, B: 0.1}, region A
\* and an energy of 0.6 kWh (2 hours, no dataset) the greenest region is B,
\* the savings are 0.18 kg and the percentage is 75.
C7_SavingsAndScenario ==
  lastEstimate # Null =>
    LET response == lastEstimate.response
        request == lastEstimate.request
    IN  /\ response.potential_savings_kg
             = JsSub(response.predicted_carbon_kg,
                     response.carbon_by_region[response.greenest_region])
        /\ response.savings_percentage
             = JsMul(JsDiv(response.potential_savings_kg, response.predicted_carbon_kg),
                     Num(100))
        /\ (/\ lastEstimate.snapshot = ScenarioSnapshot
            /\ request.region = "A"
            /\ request.duration_hours = Num(2)
            /\ request.dataset_size_gb = Num(0)
            /\ BaseCarbon(request) = Rat(6, 10)) =>
             /\ response.greenest_region = "B"
             /\ response.potential_savings_kg = Rat(18, 100)
             /\ response.savings_percentage = Num(75)

\* C8: the energy of a prediction is powerWatts * durationHours / 1000 plus
\* datasetSizeGb times the dataset coefficient, where powerWatts is the
\* estimate calculateEstimatedPower gives for the workload; the carbon of the
\* requested region is that energy times the region's factor.
C8_EnergyFromPowerModel ==
  (/\ lastEstimate # Null
   /\ NumericWorkload(lastEstimate.request)
   /\ lastEstimate.request.region \in DOMAIN lastEstimate.response.carbon_by_region) =>
    LET request == lastEstimate.request
        energy == JsAdd(JsDiv(JsMul(CalculateEstimatedPower(request),
                                    request.duration_hours), Num(1000)),
                        JsMul(request.dataset_size_gb, Rat(1, 100)))
    IN  lastEstimate.response.predicted_carbon_kg
          = JsMul(energy, PredictFactor(request.region))

\* the wattage of a catalogued model type, 200 for any other
BasePowerOf(m) ==
  CASE m = "ResNet50" -> 180
    [] m = "BERT-Base" -> 250
    [] m = "GPT-2" -> 350
    [] m = "ViT" -> 220
    [] m = "YOLO" -> 150
    [] m = "CNN-Small" -> 80
    [] OTHER -> 200

\* the wattage per GPU of a catalogued GPU type, 250 for any other
PerGpuPowerOf(g) ==
  CASE g = "T4" -> 70
    [] g = "V100" -> 300
    [] g = "A100" -> 400
    [] OTHER -> 250

\* C9: the estimated power is basePower(modelType) + perGpuPower(gpuType) *
\* gpuCount, where an uncatalogued model type counts 200 W and an
\* uncatalogued GPU type 250 W per GPU.
C9_PowerFormula ==
  \A i \in DOMAIN powerLog :
    IsNum(powerLog[i].request.gpu_count) =>
      powerLog[i].watts
        = Rat(BasePowerOf(powerLog[i].request.model_type) * powerLog[i].request.gpu_count.d
                + PerGpuPowerOf(powerLog[i].request.gpu_type) * powerLog[i].request.gpu_count.n,
              powerLog[i].request.gpu_count.d)

\* an estimate for a workload whose model type and GPU type are both
\* uncatalogued, with at least one GPU
C9_Witness ==
  \E i \in DOMAIN powerLog :
    /\ powerLog[i].request.model_type \notin DOMAIN ModelPower
    /\ powerLog[i].request.gpu_type \notin DOMAIN GpuPower
    /\ powerLog[i].request.gpu_count = Num(2)
    /\ powerLog[i].watts = Num(700)

\* the workload's model type and GPU type are both in the catalogue
Catalogued(fd) == fd.model_type \in DOMAIN ModelPower /\ fd.gpu_type \in DOMAIN GpuPower

\* what a caller sees of an estimate apart from the number itself
ApartFromNumber(v) == IF IsNum(v) THEN [t |-> v.t] ELSE v

\* C10: an estimate that used a fallback default is distinguishable from one
\* computed from catalogued values: the two differ in something other than
\* the number.
C10_FallbackObservable ==
  \A i, j \in DOMAIN powerLog :
    (Catalogued(powerLog[i].request) /\ ~Catalogued(powerLog[j].request)) =>
      ApartFromNumber(powerLog[i].watts) # ApartFromNumber(powerLog[j].watts)

\* C11: a read of the carbon-intensity snapshot made after a refresh has
\* completed, by the dashboard or by any later getCarbonData call, returns the
\* data of that refresh.
C11_ReadReturnsRefreshed ==
  (lastRead # Null /\ lastRead.refresh # Null) => lastRead.data = lastRead.refresh

\* the snapshots the service delivers
DeliveredSnapshots == {CarbonTable, RefreshedCarbonTable}

\* a snapshot is whole when it is empty or every entry of it comes from one
\* delivered snapshot, which has no other region
WholeSnapshot(s) ==
  \/ s = EmptyObject
  \/ \E t \in DeliveredSnapshots :
       DOMAIN s = DOMAIN t /\ \A r \in DOMAIN s : s[r] = t[r]

\* C12: the snapshot a reader holds (the calculator, the dashboard) is always
\* whole: entirely the data held before or entirely the data of a load or
\* refresh, never a mix of the two.
C12_SnapshotWhole == WholeSnapshot(carbonData) /\ WholeSnapshot(dashCarbonData)

\* a refresh has replaced the loaded snapshot of the calculator, and the
\* dashboard holds a loaded snapshot
C12_Witness ==
  carbonData = RefreshedCarbonTable /\ dashCarbonData = CarbonTable

\* C13: once the components are mounted, the snapshot a reader holds is never
\* empty, the time during which the first load is pending included.
C13_SnapshotNeverEmpty ==
  carbonData # EmptyObject /\ dashCarbonData # EmptyObject

\* a step in which a refresh fails
RefreshFails ==
  /\ refreshOutcome' = "rejected"
  /\ Pending("refreshCarbonData")' < Pending("refreshCarbonData")

\* a step in which a prediction completes
PredictionCompletes == refreshTrigger' = refreshTrigger + 1

\* C14: a refresh that fails leaves the snapshot held as it was and ends the
\* update, and a prediction that completes after the failure still delivers
\* its result.
C14_FailedRefreshKeepsSnapshot ==
  [][/\ RefreshFails => (carbonData' = carbonData /\ ~updatingCarbon')
     /\ (refreshOutcome = "rejected" /\ PredictionCompletes) =>
          /\ result' = lastEstimate'.response
          /\ IsNum(result'.predicted_carbon_kg)
          /\ ~loading'
          /\ error' = error]_vars

\* a refresh of a loaded snapshot has failed, the snapshot is still the loaded
\* one, and a prediction has completed after the failure
C14_Witness ==
  /\ refreshOutcome = "rejected"
  /\ carbonData = CarbonTable
  /\ ~updatingCarbon
  /\ estimateAfterFailure
  /\ result # Null

\* the sum of the numbers an object holds under the given keys
RECURSIVE SumOver(_, _)
SumOver(obj, keys) ==
  IF keys = {} THEN Num(0)
  ELSE LET k == CHOOSE key \in keys : TRUE
       IN  JsAdd(obj[k], SumOver(obj, keys \ {k}))

\* the sum of a field over a sequence of results
RECURSIVE SumField(_, _)
SumField(results, field) ==
  IF results = <<>> THEN Num(0)
  ELSE JsAdd(Head(results)[field], SumField(Tail(results), field))

\* C15: the total job count the displayed stats report equals the number of
\* results that had been recorded when the stats were computed.
C15_TotalJobsCountsRecorded ==
  dashStats # Null => dashStats.total_jobs = Num(Len(statsBasis))

\* C16: in the displayed stats the per-region job counts sum to the total job
\* count, and so do the per-model job counts.
C16_BreakdownsSumToTotal ==
  dashStats # Null =>
    /\ SumOver(dashStats.jobs_by_region, DOMAIN dashStats.jobs_by_region)
         = dashStats.total_jobs
    /\ SumOver(dashStats.jobs_by_model, DOMAIN dashStats.jobs_by_model)
         = dashStats.total_jobs

\* the dashboard displays stats computed after a prediction had completed
C16_Witness == dashStats # Null /\ statsBasis # <<>>

\* C17: the total carbon the displayed stats report is the sum of the carbon
\* each recorded result gives for its own region, and the total savings is the
\* sum of the results' savings.
C17_TotalsSumRecorded ==
  dashStats # Null =>
    /\ dashStats.total_carbon_predicted_kg = SumField(statsBasis, "predicted_carbon_kg")
    /\ dashStats.total_potential_savings_kg = SumField(statsBasis, "potential_savings_kg")

\* the last two predictions were made of the same workload with the same
\* snapshot held
SameWorkloadAndSnapshot ==
  /\ prevEstimate # Null
  /\ lastEstimate # Null
  /\ prevEstimate.request = lastEstimate.request
  /\ prevEstimate.snapshot = lastEstimate.snapshot

\* C18: two predictions of the same workload with the same snapshot held
\* return the same per-region carbon map, the same greenest region and the
\* same savings.
C18_Deterministic ==
  SameWorkloadAndSnapshot =>
    /\ prevEstimate.response.carbon_by_region = lastEstimate.response.carbon_by_region
    /\ prevEstimate.response.greenest_region = lastEstimate.response.greenest_region
    /\ prevEstimate.response.potential_savings_kg = lastEstimate.response.potential_savings_kg

\* two predictions of one workload with numeric fields have been made and
\* were given different job ids
C18_Witness ==
  /\ SameWorkloadAndSnapshot
  /\ NumericWorkload(lastEstimate.request)
  /\ prevEstimate.response.job_id # lastEstimate.response.job_id

\* C19: two calls that produce a result give them different job ids.
C19_JobIdsUnique ==
  /\ (prevEstimate # Null /\ lastEstimate # Null) =>
       prevEstimate.response.job_id # lastEstimate.response.job_id
  /\ \A i, j \in DOMAIN dashRecentJobs :
       i # j => dashRecentJobs[i].job_id # dashRecentJobs[j].job_id
  /\ \A i \in DOMAIN dashRecentJobs : \A k \in DOMAIN recorded :
       dashRecentJobs[i].job_id # recorded[k].job_id

C21_NoSavingsInGreenest ==
  (/\ lastEstimate # Null
   /\ NumericWorkload(lastEstimate.request)
   /\ lastEstimate.request.region = lastEstimate.response.greenest_region) =>
    /\ lastEstimate.response.savings_percentage = Num(0)
    /\ lastEstimate.response.potential_savings_kg = Num(0)

\* the same for the predictions whose requested region has a carbon other
\* than 0
C21_NoSavingsInGreenestNonZero ==
  (/\ lastEstimate # Null
   /\ NumericWorkload(lastEstimate.request)
   /\ lastEstimate.response.predicted_carbon_kg # Num(0)
   /\ lastEstimate.request.region = lastEstimate.response.greenest_region) =>
    /\ lastEstimate.response.savings_percentage = Num(0)
    /\ lastEstimate.response.potential_savings_kg = Num(0)

\* C22: at most one predict call of the calculator is pending, and one is
\* pending exactly while loading is true.
C22_OnePredictionInFlight ==
  /\ Pending("predict") <= 1
  /\ loading <=> Pending("predict") = 1

\* a second submission of the calculator is pending after a first one has
\* completed
C22_Witness == loading /\ Pending("predict") = 1 /\ recorded # <<>>

\* C23: a calculator submission that is pending ends with loading false,
\* whether its promise is resolved or rejected, and a refresh that is pending
\* ends with updatingCarbon false.
C23_LoadingEnds ==
  /\ loading ~> ~loading
  /\ updatingCarbon ~> ~updatingCarbon

\* a submission has been rejected and a refresh has been rejected, and neither
\* is pending any more
C23_Witness ==
  /\ error = "Failed to calculate carbon emissions."
  /\ ~loading
  /\ refreshOutcome = "rejected"
  /\ ~updatingCarbon

\* C24: refreshTrigger equals the number of calculator predictions that have
\* completed with a result plus the number of workload optimizations that
\* have completed; a rejected submission adds nothing.
C24_TriggerCountsSuccesses ==
  refreshTrigger = Len(recorded) + workloadsCreated

\* a prediction and an optimization have completed, one while the other was
\* pending or after it, and a later submission of the calculator has been
\* rejected
C24_Witness ==
  /\ recorded # <<>>
  /\ workloadsCreated > 0
  /\ error = "Failed to calculate carbon emissions."
  /\ ~loading

\* a step in which a fetchData call of the dashboard ends
FetchEnds == Len(dashTimers') < Len(dashTimers)

\* the job lists getJobs can resolve with
JobLists ==
  {GetJobs(MaxJobsListed, draws) : draws \in [1..MaxJobsListed -> 1..MaxJobIds]}

\* C25: a step that ends a dashboard fetch either replaces stats, recentJobs
\* and carbonData, all three, by responses and leaves the error as it is, or
\* changes none of the three and sets the error message; no other step
\* changes any of the three.
C25_FetchAllOrNothing ==
  [][IF FetchEnds
     THEN \/ /\ dashStats' = GetStats
             /\ dashRecentJobs' \in JobLists
             /\ dashCarbonData' = CarbonTable
             /\ dashError' = dashError
          \/ /\ UNCHANGED <<dashStats, dashRecentJobs, dashCarbonData>>
             /\ dashError' = "Failed to load dashboard data."
     ELSE UNCHANGED <<dashStats, dashRecentJobs, dashCarbonData>>]_vars

\* a fetch has failed after an earlier one had succeeded: the error is set
\* and the three responses of the earlier fetch are displayed
C25_Witness ==
  /\ dashError = "Failed to load dashboard data."
  /\ dashStats = GetStats
  /\ dashRecentJobs \in JobLists
  /\ dashCarbonData = CarbonTable

\* C26: once every dashboard fetch has ended, the dashboard displays what the
\* fetch started last has produced: its responses and no error when it has
\* succeeded, the error when it has failed.
C26_DisplaysLatestFetch ==
  dashTimers = <<>> =>
    /\ latestFetch.outcome = "resolved" =>
         (dashRecentJobs = latestFetch.jobs /\ dashStats = GetStats /\ dashError = "")
    /\ latestFetch.outcome = "rejected" => dashError # ""

\* the same without failing requests: what the dashboard displays when every
\* fetch has ended is what the fetch started last has resolved with
C26_DisplaysLatestResponses ==
  dashTimers = <<>> =>
    /\ latestFetch.outcome = "resolved"
    /\ dashRecentJobs = latestFetch.jobs
    /\ dashStats = GetStats
    /\ dashError = ""

\* C27: once a refresh has completed in the calculator, the snapshot displayed
\* is the data of that refresh; the response of the initial load, which the
\* refresh may have been requested before, never replaces it.
C27_RefreshedSnapshotStays == lastRefresh # Null => carbonData = lastRefresh

\* a refresh has completed and the initial load has ended
C27_Witness ==
  /\ lastRefresh = RefreshedCarbonTable
  /\ carbonData = RefreshedCarbonTable
  /\ Pending("getCarbonData") = 0
  /\ Pending("refreshCarbonData") = 0

\* the region of the form and of every predict call made is a key of the
\* region table of predict
SubmittedRegionInTable ==
  /\ formData.region \in DOMAIN CarbonByRegion(formData)
  /\ \A i \in DOMAIN timers :
       timers[i].call = "predict" => timers[i].arg.region \in DOMAIN CarbonByRegion(timers[i].arg)
  /\ result # Null => result.region \in DOMAIN result.carbon_by_region

\* C28: whatever the edits, loads and refreshes before, the region submitted
\* is a key of the region table of predict and the predicted carbon of the
\* requested region, in the result displayed, is a number.
C28_SubmittedCarbonDefined ==
  /\ SubmittedRegionInTable
  /\ result # Null => IsNum(result.predicted_carbon_kg)

\* C28, the region alone: the region submitted is always a key of the region
\* table of predict.
C28_SubmittedRegionKnown == SubmittedRegionInTable

\* a step that starts a calculator submission
SubmissionStarts == ~loading /\ loading'

\* a step that ends a calculator submission with a response
SubmissionSucceeds == loading /\ ~loading' /\ Len(recorded') > Len(recorded)

\* a step that ends a calculator submission without a response
SubmissionFails == loading /\ ~loading' /\ Len(recorded') = Len(recorded)

\* C29 as stated: a submission clears the error when it starts; one that fails
\* sets the error and leaves the result displayed unchanged; one that succeeds
\* replaces the result and ends with the error empty.
C29_SuccessLeavesErrorEmpty ==
  [][/\ SubmissionStarts => error' = ""
     /\ SubmissionFails => error' # "" /\ result' = result
     /\ SubmissionSucceeds =>
          result' = recorded'[Len(recorded')] /\ error' = ""]_vars

\* C29: a submission clears the error when it starts; one that fails sets the
\* error and leaves the result displayed unchanged; one that succeeds replaces
\* the result and leaves the error as it is: empty as the submission has left
\* it, or the error of the initial load when that has failed since.
C29_SuccessLeavesErrorUnchanged ==
  [][/\ SubmissionStarts => error' = ""
     /\ SubmissionFails => error' # "" /\ result' = result
     /\ SubmissionSucceeds =>
          result' = recorded'[Len(recorded')] /\ error' = error]_vars

\* a submission has succeeded after the initial load has failed during it
C29_Witness ==
  /\ result # Null
  /\ ~loading
  /\ error = "Failed to load carbon intensity data"

\* the result displayed by WorkloadCreator is that of a workload within the
\* ranges of the resource inputs
ResultOfSubmittableWorkload ==
  /\ wcResult # Null
  /\ JsLe(Num(1), wcResult.cpu_cores) /\ JsLe(wcResult.cpu_cores, Num(64))
  /\ JsLe(Num(1), wcResult.memory_gb) /\ JsLe(wcResult.memory_gb, Num(512))
  /\ JsLe(Num(0), wcResult.gpu_count) /\ JsLe(wcResult.gpu_count, Num(8))

\* C30: for every workload the form can submit, the optimized configuration
\* asks for no more CPU cores, memory or GPUs than the workload submitted, and
\* the optimized carbon is not above the estimated carbon.
C30_OptimizedWithinSubmitted ==
  ResultOfSubmittableWorkload =>
    /\ JsLe(wcResult.optimized_cpu_cores, wcResult.cpu_cores)
    /\ JsLe(wcResult.optimized_memory_gb, wcResult.memory_gb)
    /\ JsLe(wcResult.optimized_gpu_count, wcResult.gpu_count)
    /\ JsLe(wcResult.optimized_carbon, wcResult.estimated_carbon)

\* C30, the carbon alone: the optimized carbon is not above the estimated
\* carbon.
C30_OptimizedCarbonBelowEstimate ==
  ResultOfSubmittableWorkload =>
    JsLe(wcResult.optimized_carbon, wcResult.estimated_carbon)

\* C30, the workloads at or above the floors of the optimizer: with 2 cores,
\* 8 GB and 1 GPU at least, no resource of the optimized configuration is
\* above the one submitted.
C30_OptimizedWithinSubmittedAboveFloors ==
  /\ ResultOfSubmittableWorkload
  /\ JsLe(Num(2), wcResult.cpu_cores)
  /\ JsLe(Num(8), wcResult.memory_gb)
  /\ JsLe(Num(1), wcResult.gpu_count)
  => /\ JsLe(wcResult.optimized_cpu_cores, wcResult.cpu_cores)
     /\ JsLe(wcResult.optimized_memory_gb, wcResult.memory_gb)
     /\ JsLe(wcResult.optimized_gpu_count, wcResult.gpu_count)

TypeOK == edits \in 0..MaxEdits

====
